---- MODULE Spec2Model ----
(***************************************************************************)
(* Site monitor: a monitoring loop probes every configured target once per *)
(* cycle (all probes of a cycle concurrently), the aiohttp trace hooks and  *)
(* the content validation append rows to one SQLite table, and the          *)
(* dashboard reconstructs the latest status per url from that table.        *)
(*                                                                         *)
(* Text (urls excepted) is a sequence of one-character strings, so that     *)
(* Python's "in" on str is a real substring test.  Time is an integer       *)
(* number of clock units; round(seconds * 1000) of a difference of two      *)
(* readings is the difference of the readings in those units.               *)
(*                                                                         *)
(* written, failed, base and page_trace record what happened (which rows a  *)
(* probe committed, how its request failed, how long the table was when the *)
(* cycle began, what a dashboard request did); no action reads them.        *)
(***************************************************************************)
EXTENDS Integers, Sequences, FiniteSets, TLC

\* ---------------------------------------------------------------- bounds
MaxClock == 2
MaxCycles == 2
MaxRequests == 1

\* ------------------------------------------------------- program constants
\* SQL NULL / Python None for the duration column (durations are >= 0).
NULL == -1

CONN_OK == "CONN_OK"
CONN_NOK == "CONN_NOK"
CONTENT_OK == "CONTENT_OK"
CONTENT_NOK == "CONTENT_NOK"
LogStatus == {CONN_OK, CONN_NOK, CONTENT_OK, CONTENT_NOK}

\* ------------------------------------------------------------ config.py
Target(url, content_requirements) ==
    [url |-> url, content_requirements |-> content_requirements]

Config(interval, targets) == [interval |-> interval, targets |-> targets]

\* An optional value (a key of the JSON file that may be missing, an option
\* that may not be given): absent, Python's None, or present with a value.
Absent == << >>
Some(v) == << v >>

\* Python truth of an optional int: None and 0 are false.
IntTruthy(x) == x # Absent /\ x[1] # 0

\* Python truth of an optional list: None and [] are false.
ListTruthy(x) == x # Absent /\ x[1] # << >>

ValueError == "ValueError"
TypeError == "TypeError"

\* What parse_config does: it returns a value or raises.
Returns(v) == [exc |-> "none", value |-> v]
Raises(e) == [exc |-> e, value |-> Config(0, << >>)]

\* Target(item["url"], item["req"] if item.get("req") else [])
ParseTarget(item) ==
    Target(item.url, IF ListTruthy(item.req) THEN item.req[1] ELSE << >>)

\* parse_config(cmd_interval, config): config is the dict read from the file,
\* config.targets absent when the value under "targets" is not a list.
ParseConfig(cmd_interval, file) ==
    IF file.targets = Absent THEN Raises(TypeError)
    ELSE IF ~IntTruthy(cmd_interval) /\ ~IntTruthy(file.interval) THEN Raises(ValueError)
    ELSE LET interval == IF IntTruthy(cmd_interval) THEN cmd_interval[1]
                         ELSE file.interval[1]
             targets == file.targets[1]
         IN  Returns(Config(interval, [i \in 1..Len(targets) |-> ParseTarget(targets[i])]))

\* The command lines and the config files __main__ is run with.
Intervals == {Absent, Some(0 - 1), Some(0), Some(1), Some(2)}

Item(url, req) == [url |-> url, req |-> req]

TargetLists ==
    { Absent,
      Some(<< >>),
      Some(<< Item("a", Absent) >>),
      Some(<< Item("a", Some(<< >>)) >>),
      Some(<< Item("a", Some(<< <<"h", "i">> >>)), Item("b", Absent) >>) }

ConfigFiles == [interval : Intervals, targets : TargetLists]

\* The configurations the monitoring loop is run with: one target with two
\* required substrings, a connectivity-only target next to one with a
\* required substring, and a file that lists one url twice.
OneTarget == Config(1, << Target("b", << <<"h", "i">>, <<"y", "o">> >>) >>)
TwoTargets == Config(1, << Target("a", << >>), Target("b", << <<"h", "i">> >>) >>)
SameUrlTwice == Config(1, << Target("a", << <<"h", "i">> >>), Target("a", << >>) >>)

Configs == {OneTarget, TwoTargets, SameUrlTwice}

\* The configurations the dashboard is run with.
NoRequirements == Config(1, << Target("a", << >>) >>)
PageConfigs == {OneTarget, NoRequirements}

\* What a server can send as a body.
Bodies == { <<"h", "i", "y", "o">>, <<"h", "i">>, <<"o", "h">> }

\* Response status lines: one that raise_for_status accepts, one it rejects.
Statuses == {200, 404}

\* Exceptions.  Transport failures are aiohttp.ClientError / asyncio.TimeoutError;
\* OperationalError stands for any sqlite3 error of the log store.
ClientError == "ClientError"
TimeoutError == "TimeoutError"
OperationalError == "OperationalError"
NoExc == "none"
TransportErrors == {ClientError, TimeoutError}

VARIABLES
    args,           \* run_monitor: the parsed command line (args.interval)
    main_pc,        \* run_monitor: where __main__ is
    main_exc,       \* run_monitor: the exception that ended __main__, if any
    config,         \* run_monitor: config, then app.config["monitoring_config"]
    clock,          \* the current time (datetime.now() and loop.time())
    db_ready,       \* init_log_db has committed in this run of the program
    log,            \* the committed rows of monitoring_logs, in id order
    mpc,            \* where the monitor task is
    cycle,          \* number of cycles started
    base,           \* number of rows in the table when the cycle started
    ppc,            \* per target: where its probe coroutine is
    request_start,  \* per target: trace_config_ctx.request_start
    resp_status,    \* per target: status of the response received
    exc,            \* per target: the exception being handled
    text,           \* per target: what get_response_text returned
    pending,        \* per target: the row write_log_db_entry is inserting
    written,        \* per target: ids of the rows this cycle's probe committed
    failed,         \* per target: how this cycle's request failed, if it did
    dpc,            \* where the dashboard request handler is
    wake,           \* dashboard: when its asyncio.sleep ends
    urls,           \* dashboard: urls still to be looked up
    details,        \* dashboard: MonitoringDetails being built
    cur_url,        \* dashboard: url of the loop iteration
    data,           \* dashboard: result of get_monitoring_data so far
    requests,       \* number of dashboard requests served
    page_trace      \* dashboard: what the latest request has done so far

vars == << args, main_pc, main_exc, config, clock, db_ready, log, mpc, cycle,
           base, ppc, request_start, resp_status, exc, text, pending, written,
           failed, dpc, wake, urls, details, cur_url, data, requests, page_trace >>

main_vars == << args, main_pc, main_exc >>
monitor_vars == << mpc, cycle, base >>
probe_vars == << ppc, request_start, resp_status, exc, text, pending, written,
                 failed >>
dash_vars == << dpc, wake, urls, details, cur_url, data, requests, page_trace >>

TargetIds == 1..Len(config.targets)
Urls == {"a", "b"}

\* ---------------------------------------------------------------- str
\* Python: expected_text in text
IsSubstring(s, t) ==
    \E i \in 0..(Len(t) - Len(s)) : SubSeq(t, i + 1, i + Len(s)) = s

\* str(params.exception)
ExcStr(e) == << e >>

\* f"{expected_text} not found response content"
NotFoundDetails(expected_text) == expected_text \o << " not found response content" >>

\* --------------------------------------------------------------- logs_db.py
Row(timestamp, url, duration, status, dtl) ==
    [id |-> 0, timestamp |-> timestamp, url |-> url, duration |-> duration,
     status |-> status, details |-> dtl]

\* INTEGER PRIMARY KEY: SQLite assigns the greatest id in the table plus one.
NextRowId(rows) ==
    IF rows = << >> THEN 1
    ELSE 1 + CHOOSE m \in {rows[i].id : i \in 1..Len(rows)} :
                 \A i \in 1..Len(rows) : rows[i].id <= m

\* Faulty variant: a row inserted at the timestamp of the last row replaces that row.
InsertRowReplacing(rows, row) ==
    IF rows # << >> /\ rows[Len(rows)].timestamp = row.timestamp
    THEN [rows EXCEPT ![Len(rows)] = [row EXCEPT !.id = Len(rows)]]
    ELSE Append(rows, [row EXCEPT !.id = NextRowId(rows)])

\* INSERT INTO monitoring_logs ... ; commit
InsertRow(rows, row) == Append(rows, [row EXCEPT !.id = NextRowId(rows)])

\* write_log_db_entry up to its first await: the timestamp is taken here.
StampedRow(url, status, duration, dtl) == Row(clock, url, duration, status, dtl)

RowsOf(rows) == {rows[i] : i \in 1..Len(rows)}

\* SELECT DISTINCT(url) FROM monitoring_logs
ReadMonitoredUrls(rows) == {r.url : r \in RowsOf(rows)}

\* ORDER BY timestamp DESC LIMIT 1 over a set of rows: the rows that may come
\* first (SQLite leaves the order among equal timestamps unspecified).
LatestByTimestamp(S) == {r \in S : \A q \in S : q.timestamp <= r.timestamp}

\* Faulty variant: only successful requests count as connectivity entries.
LatestRequestRowsOkOnly(rows, url) ==
    LatestByTimestamp({r \in RowsOf(rows) : r.url = url /\ r.status = CONN_OK})

\* WHERE url=? AND duration IS NOT NULL ORDER BY timestamp DESC LIMIT 1
LatestRequestRows(rows, url) ==
    LatestByTimestamp({r \in RowsOf(rows) : r.url = url /\ r.duration # NULL})

\* Faulty variant: timestamp >= ? instead of timestamp > ?.
LatestContentRowsNotStrict(rows, url, after) ==
    LatestByTimestamp({r \in RowsOf(rows) :
                          r.url = url /\ r.duration = NULL /\ r.timestamp >= after})

\* WHERE url=? AND duration IS NULL AND timestamp > ? ORDER BY timestamp DESC LIMIT 1
LatestContentRows(rows, url, after) ==
    LatestByTimestamp({r \in RowsOf(rows) :
                          r.url = url /\ r.duration = NULL /\ r.timestamp > after})

MonitoringDetails(timestamp, duration, status, dtl) ==
    [timestamp |-> timestamp, duration |-> duration, status |-> status,
     details |-> dtl]

None == [timestamp |-> NULL, duration |-> NULL, status |-> "None", details |-> << >>]

FromRequestRow(r) == MonitoringDetails(r.timestamp, r.duration, r.status, r.details)

\* details.status = row["status"]; details.details = row["details"]
Overlay(d, r) == [d EXCEPT !.status = r.status, !.details = r.details]

\* One iteration of get_monitoring_data's loop run against one table state:
\* every value data[url] can get.
GetMonitoringData(rows, url) ==
    IF LatestRequestRows(rows, url) = {} THEN {None}
    ELSE UNION { LET d == FromRequestRow(r)
                     C == LatestContentRows(rows, url, d.timestamp)
                 IN  IF C = {} THEN {d} ELSE {Overlay(d, c) : c \in C}
                 : r \in LatestRequestRows(rows, url) }

\* Values of locals that are not live.
NoText == << "None" >>
NoRow == Row(0, "", NULL, "", << >>)
NoStart == 0
NoStatus == 0

\* ------------------------------------------------------------------ Init
\* __main__ has parsed the configuration and calls app.run().  The log file
\* outlives the process: a run starts on one of the given tables.
InitWith(configs, tables) ==
    /\ args = [interval |-> Absent]
    /\ main_pc = "run"
    /\ main_exc = NoExc
    /\ config \in configs
    /\ clock = 0
    /\ db_ready = FALSE
    /\ log \in tables
    /\ mpc = "not_started"
    /\ cycle = 0
    /\ base = 0
    /\ ppc = [t \in TargetIds |-> "idle"]
    /\ request_start = [t \in TargetIds |-> NoStart]
    /\ resp_status = [t \in TargetIds |-> NoStatus]
    /\ exc = [t \in TargetIds |-> NoExc]
    /\ text = [t \in TargetIds |-> NoText]
    /\ pending = [t \in TargetIds |-> NoRow]
    /\ written = [t \in TargetIds |-> << >>]
    /\ failed = [t \in TargetIds |-> "none"]
    /\ dpc = "idle"
    /\ wake = 0
    /\ urls = {}
    /\ details = None
    /\ cur_url = ""
    /\ data = [u \in {} |-> None]
    /\ requests = 0
    /\ page_trace = << >>

\* A first run: there is no log file yet.
Init == InitWith(Configs, { << >> })

\* ---------------------------------------------------------- run_monitor
\* __main__ before parse_config: config is the dict read_config returned, and
\* there are no probes yet.
ConfigInit ==
    /\ args \in [interval : Intervals]
    /\ main_pc = "parse"
    /\ main_exc = NoExc
    /\ config \in ConfigFiles
    /\ clock = 0
    /\ db_ready = FALSE
    /\ log = << >>
    /\ mpc = "not_started"
    /\ cycle = 0
    /\ base = 0
    /\ ppc = << >>
    /\ request_start = << >>
    /\ resp_status = << >>
    /\ exc = << >>
    /\ text = << >>
    /\ pending = << >>
    /\ written = << >>
    /\ failed = << >>
    /\ dpc = "idle"
    /\ wake = 0
    /\ urls = {}
    /\ details = None
    /\ cur_url = ""
    /\ data = [u \in {} |-> None]
    /\ requests = 0
    /\ page_trace = << >>

\* config = parse_config(args.interval, config); app.config[...] = config.
\* An exception of parse_config ends __main__ before app.run().
Main ==
    /\ main_pc = "parse"
    /\ LET r == ParseConfig(args.interval, config)
       IN  IF r.exc # NoExc
           THEN /\ main_pc' = "raised"
                /\ main_exc' = r.exc
                /\ UNCHANGED << config, probe_vars >>
           ELSE /\ main_pc' = "run"
                /\ main_exc' = NoExc
                /\ config' = r.value
                /\ ppc' = [t \in 1..Len(r.value.targets) |-> "idle"]
                /\ request_start' = [t \in 1..Len(r.value.targets) |-> NoStart]
                /\ resp_status' = [t \in 1..Len(r.value.targets) |-> NoStatus]
                /\ exc' = [t \in 1..Len(r.value.targets) |-> NoExc]
                /\ text' = [t \in 1..Len(r.value.targets) |-> NoText]
                /\ pending' = [t \in 1..Len(r.value.targets) |-> NoRow]
                /\ written' = [t \in 1..Len(r.value.targets) |-> << >>]
                /\ failed' = [t \in 1..Len(r.value.targets) |-> "none"]
    /\ UNCHANGED << args, clock, db_ready, log, monitor_vars, dash_vars >>

\* ------------------------------------------------------------- startup
\* startup(): await init_log_db(); loop.create_task(monitor(config)).
\* Faulty variant: the table is created anew (DROP TABLE, CREATE TABLE).
InitLogDbDropping(rows) == << >>

\* CREATE TABLE IF NOT EXISTS leaves the rows of an existing table alone.
InitLogDb(rows) == rows

\* Faulty variant: the monitor task is created without init_log_db having
\* been awaited.
StartupTaskFirst ==
    /\ main_pc = "run"
    /\ mpc = "not_started"
    /\ mpc' = "loop"
    /\ UNCHANGED << main_vars, config, clock, db_ready, log, cycle, base, probe_vars,
                    dash_vars >>

Startup ==
    /\ main_pc = "run"
    /\ mpc = "not_started"
    /\ log' = InitLogDb(log)
    /\ db_ready' = TRUE
    /\ mpc' = "loop"
    /\ UNCHANGED << main_vars, config, clock, cycle, base, probe_vars, dash_vars >>

\* --------------------------------------------------------------- monitor
\* while True: await asyncio.gather(*[get_and_validate_content(...) ...]):
\* one task per configured target, all of them runnable.
StartCycle ==
    /\ mpc = "loop"
    /\ cycle < MaxCycles
    /\ cycle' = cycle + 1
    /\ base' = Len(log)
    /\ mpc' = "gather"
    /\ ppc' = [t \in TargetIds |-> "start"]
    /\ written' = [t \in TargetIds |-> << >>]
    /\ failed' = [t \in TargetIds |-> "none"]
    /\ exc' = [t \in TargetIds |-> NoExc]
    /\ text' = [t \in TargetIds |-> NoText]
    /\ UNCHANGED << main_vars, config, clock, db_ready, log, request_start, resp_status,
                    pending, dash_vars >>

\* Faulty variant: the awaiter is resumed when the first task has returned
\* (asyncio.wait with FIRST_COMPLETED).
GatherDoneFirstCompleted == \E t \in TargetIds : ppc[t] = "returned"

\* gather (return_exceptions=False) resumes the awaiter when every task has
\* returned ...
GatherDone == \A t \in TargetIds : ppc[t] = "returned"

\* ... or as soon as one task has raised; the other tasks keep running.
GatherRaised == \E t \in TargetIds : ppc[t] = "raised"

GatherReturn ==
    /\ mpc = "gather"
    /\ GatherDone
    /\ mpc' = "sleep"
    /\ UNCHANGED << main_vars, config, clock, db_ready, log, cycle, base, probe_vars, dash_vars >>

\* The exception leaves monitor(): the session is closed and the task ends.
GatherRaise ==
    /\ mpc = "gather"
    /\ GatherRaised
    /\ mpc' = "crashed"
    /\ UNCHANGED << main_vars, config, clock, db_ready, log, cycle, base, probe_vars, dash_vars >>

\* await asyncio.sleep(config.interval)
Sleep ==
    /\ mpc = "sleep"
    /\ clock + config.interval <= MaxClock
    /\ clock' = clock + config.interval
    /\ mpc' = "loop"
    /\ UNCHANGED << main_vars, config, db_ready, log, cycle, base, probe_vars, dash_vars >>

\* Time passes.
Tick ==
    /\ clock < MaxClock
    /\ clock' = clock + 1
    /\ UNCHANGED << main_vars, config, db_ready, log, monitor_vars, probe_vars, dash_vars >>

\* ----------------------------------------------------------- trace hooks
\* round((loop.time() - request_start) * 1000)
ElapsedTime(t) == clock - request_start[t]

\* on_request_start
OnRequestStart(t) ==
    /\ ppc[t] = "start"
    /\ request_start' = [request_start EXCEPT ![t] = clock]
    /\ ppc' = [ppc EXCEPT ![t] = "inflight"]
    /\ UNCHANGED << main_vars, config, clock, db_ready, log, monitor_vars, resp_status,
                    exc, text, pending, written, failed, dash_vars >>

\* The row on_request_end hands to write_log_db_entry.
RequestEndRow(t) ==
    StampedRow(config.targets[t].url, CONN_OK, ElapsedTime(t), << >>)

\* Faulty variant: on_request_exception passes no duration.
RequestExceptionRowNoDuration(t, e) ==
    StampedRow(config.targets[t].url, CONN_NOK, NULL, ExcStr(e))

\* The row on_request_exception hands to write_log_db_entry.
RequestExceptionRow(t, e) ==
    StampedRow(config.targets[t].url, CONN_NOK, ElapsedTime(t), ExcStr(e))

\* Faulty variant: on_request_end does not await write_log_db_entry, and the
\* probe goes on to the body before the CONN_OK row is written.
OnRequestEndNotAwaited(t) ==
    /\ ppc[t] = "inflight"
    /\ \E st \in Statuses : resp_status' = [resp_status EXCEPT ![t] = st]
    /\ ppc' = [ppc EXCEPT ![t] = "read_body"]
    /\ UNCHANGED << main_vars, config, clock, db_ready, log, monitor_vars,
                    request_start, exc, text, pending, written, failed, dash_vars >>

\* The response head arrives, whatever its status: aiohttp fires
\* on_request_end, which starts the CONN_OK write.
OnRequestEnd(t) ==
    /\ ppc[t] = "inflight"
    /\ \E st \in Statuses : resp_status' = [resp_status EXCEPT ![t] = st]
    /\ pending' = [pending EXCEPT ![t] = RequestEndRow(t)]
    /\ ppc' = [ppc EXCEPT ![t] = "write"]
    /\ UNCHANGED << main_vars, config, clock, db_ready, log, monitor_vars, request_start,
                    exc, text, written, failed, dash_vars >>

\* The request fails before a response head arrives (connection error or
\* the session's total timeout): aiohttp fires on_request_exception.
OnRequestException(t) ==
    /\ ppc[t] = "inflight"
    /\ \E e \in TransportErrors :
          /\ exc' = [exc EXCEPT ![t] = e]
          /\ pending' = [pending EXCEPT ![t] = RequestExceptionRow(t, e)]
    /\ failed' = [failed EXCEPT ![t] = "request"]
    /\ ppc' = [ppc EXCEPT ![t] = "write"]
    /\ UNCHANGED << main_vars, config, clock, db_ready, log, monitor_vars, request_start,
                    resp_status, text, written, dash_vars >>

\* ------------------------------------------------------ get_response_text
\* response.raise_for_status() raises ClientResponseError for 400 and above.
RaisesForStatus(st) == st >= 400

\* Faulty variant: except aiohttp.ClientError only.
CaughtClientErrorOnly(e) == e = ClientError

\* except (aiohttp.ClientError, asyncio.TimeoutError): return None
Caught(e) == e \in TransportErrors

\* ----------------------------------------------- get_and_validate_content
\* Index of the first required substring that is not in the body, 0 if none.
RECURSIVE FirstMissing(_, _)
FirstMissing(reqs, body) ==
    IF reqs = << >> THEN 0
    ELSE IF ~IsSubstring(Head(reqs), body) THEN 1
    ELSE LET k == FirstMissing(Tail(reqs), body)
         IN  IF k = 0 THEN 0 ELSE k + 1

\* Faulty variant: the loop does not stop at the first missing substring, so the
\* entry names the last one.
ContentRowLastMissing(t, body) ==
    LET reqs == config.targets[t].content_requirements
        missing == {k \in 1..Len(reqs) : ~IsSubstring(reqs[k], body)}
    IN  IF missing = {}
        THEN StampedRow(config.targets[t].url, CONTENT_OK, NULL, << >>)
        ELSE StampedRow(config.targets[t].url, CONTENT_NOK, NULL,
                        NotFoundDetails(reqs[CHOOSE k \in missing :
                                                \A j \in missing : j <= k]))

\* The row the validation loop hands to write_log_db_entry.
ContentRow(t, body) ==
    LET reqs == config.targets[t].content_requirements
        k == FirstMissing(reqs, body)
    IN  IF k = 0
        THEN StampedRow(config.targets[t].url, CONTENT_OK, NULL, << >>)
        ELSE StampedRow(config.targets[t].url, CONTENT_NOK, NULL,
                        NotFoundDetails(reqs[k]))

\* The exception get_response_text sees once the connectivity row it was
\* writing is committed: ClientResponseError (a ClientError) from
\* raise_for_status, or the exception on_request_exception was fired with.
RaisedAfterCommit(t) ==
    CASE pending[t].status = CONN_OK ->
            IF RaisesForStatus(resp_status[t]) THEN ClientError ELSE NoExc
      [] pending[t].status = CONN_NOK -> exc[t]
      [] OTHER -> NoExc

\* Where the probe goes once the row it was writing is committed.
AfterCommit(t) ==
    CASE RaisedAfterCommit(t) # NoExc ->
            IF Caught(RaisedAfterCommit(t)) THEN "returned" ELSE "raised"
      [] pending[t].status = CONN_OK -> "read_body"
      [] OTHER -> "returned"

\* write_log_db_entry: connect, INSERT, commit.
WriteCommit(t) ==
    /\ ppc[t] = "write"
    /\ log' = InsertRow(log, pending[t])
    /\ written' = [written EXCEPT ![t] = Append(@, NextRowId(log))]
    /\ ppc' = [ppc EXCEPT ![t] = AfterCommit(t)]
    /\ failed' = [failed EXCEPT ![t] =
                    IF pending[t].status = CONN_OK /\ RaisesForStatus(resp_status[t])
                    THEN "status" ELSE @]
    /\ pending' = [pending EXCEPT ![t] = NoRow]
    /\ request_start' = [request_start EXCEPT ![t] = NoStart]
    /\ resp_status' = [resp_status EXCEPT ![t] = NoStatus]
    /\ exc' = [exc EXCEPT ![t] =
                 IF AfterCommit(t) = "raised" THEN RaisedAfterCommit(t) ELSE NoExc]
    /\ UNCHANGED << main_vars, config, clock, db_ready, monitor_vars, text, dash_vars >>

\* write_log_db_entry raises (sqlite3 error).  Raised inside on_request_end it
\* is an exception of the request, so aiohttp fires on_request_exception with
\* it before it goes on; raised anywhere else it leaves the probe.
WriteFail(t) ==
    /\ ppc[t] = "write"
    /\ exc' = [exc EXCEPT ![t] = OperationalError]
    /\ IF pending[t].status = CONN_OK
       THEN /\ pending' = [pending EXCEPT ![t] = RequestExceptionRow(t, OperationalError)]
            /\ ppc' = ppc
            /\ UNCHANGED << request_start, resp_status >>
       ELSE /\ pending' = [pending EXCEPT ![t] = NoRow]
            /\ request_start' = [request_start EXCEPT ![t] = NoStart]
            /\ resp_status' = [resp_status EXCEPT ![t] = NoStatus]
            /\ ppc' = [ppc EXCEPT ![t] = "raised"]
    /\ UNCHANGED << main_vars, config, clock, db_ready, log, monitor_vars, text, written,
                    failed, dash_vars >>

\* await response.text() returns the body: the validation loop runs and, if
\* there are requirements, starts the write of the one content row.
ReadBody(t) ==
    /\ ppc[t] = "read_body"
    /\ \E body \in Bodies :
          /\ text' = [text EXCEPT ![t] = body]
          /\ IF config.targets[t].content_requirements # << >>
             THEN /\ pending' = [pending EXCEPT ![t] = ContentRow(t, body)]
                  /\ ppc' = [ppc EXCEPT ![t] = "write"]
             ELSE /\ pending' = pending
                  /\ ppc' = [ppc EXCEPT ![t] = "returned"]
    /\ UNCHANGED << main_vars, config, clock, db_ready, log, monitor_vars, request_start,
                    resp_status, exc, written, failed, dash_vars >>

\* await response.text() fails (payload error, or the total timeout expires
\* while the body is read): get_response_text returns None.
ReadBodyFails(t) ==
    /\ ppc[t] = "read_body"
    /\ \E e \in TransportErrors :
          IF Caught(e)
          THEN /\ ppc' = [ppc EXCEPT ![t] = "returned"]
               /\ exc' = exc
          ELSE /\ ppc' = [ppc EXCEPT ![t] = "raised"]
               /\ exc' = [exc EXCEPT ![t] = e]
    /\ failed' = [failed EXCEPT ![t] = "body"]
    /\ UNCHANGED << main_vars, config, clock, db_ready, log, monitor_vars, request_start,
                    resp_status, text, pending, written, dash_vars >>

\* ------------------------------------------------------ get_monitoring_page
\* What a request does, as recorded in page_trace.
ReadUrls(result) == [op |-> "read_monitored_urls", urls |-> result]
Slept == [op |-> "sleep", urls |-> {}]
Rendered(items) == [op |-> "render_template", urls |-> items]

\* urls = await read_monitored_urls(); if not urls: the sleep begins.
DashRequest ==
    /\ dpc = "idle"
    /\ db_ready
    /\ requests < MaxRequests
    /\ urls' = ReadMonitoredUrls(log)
    /\ dpc' = IF ReadMonitoredUrls(log) = {} THEN "wait" ELSE "data"
    /\ wake' = IF ReadMonitoredUrls(log) = {} THEN clock + config.interval ELSE 0
    /\ data' = [u \in {} |-> None]
    /\ page_trace' = IF ReadMonitoredUrls(log) = {}
                     THEN << ReadUrls(ReadMonitoredUrls(log)), Slept >>
                     ELSE << ReadUrls(ReadMonitoredUrls(log)) >>
    /\ UNCHANGED << main_vars, config, clock, db_ready, log, monitor_vars, probe_vars,
                    details, cur_url, requests >>

\* Faulty variant: while not urls, the request sleeps and reads again.
DashRetryUntilFound ==
    /\ dpc = "wait"
    /\ clock >= wake
    /\ urls' = ReadMonitoredUrls(log)
    /\ dpc' = IF ReadMonitoredUrls(log) = {} THEN "wait" ELSE "data"
    /\ wake' = IF ReadMonitoredUrls(log) = {} THEN clock + config.interval ELSE 0
    /\ page_trace' = IF ReadMonitoredUrls(log) = {}
                     THEN page_trace \o << ReadUrls(ReadMonitoredUrls(log)), Slept >>
                     ELSE Append(page_trace, ReadUrls(ReadMonitoredUrls(log)))
    /\ UNCHANGED << main_vars, config, clock, db_ready, log, monitor_vars, probe_vars,
                    details, cur_url, data, requests >>

\* The sleep of one interval is over; urls = await read_monitored_urls()
DashRetry ==
    /\ dpc = "wait"
    /\ clock >= wake
    /\ wake' = 0
    /\ urls' = ReadMonitoredUrls(log)
    /\ dpc' = "data"
    /\ page_trace' = Append(page_trace, ReadUrls(ReadMonitoredUrls(log)))
    /\ UNCHANGED << main_vars, config, clock, db_ready, log, monitor_vars, probe_vars,
                    details, cur_url, data, requests >>

\* get_monitoring_data, first SELECT of one iteration.
SelectLatestRequest ==
    /\ dpc = "data"
    /\ \E u \in urls :
          /\ urls' = urls \ {u}
          /\ cur_url' = u
          /\ IF LatestRequestRows(log, u) = {}
             THEN /\ data' = [x \in DOMAIN data \cup {u} |->
                                 IF x = u THEN None ELSE data[x]]
                  /\ details' = details
                  /\ dpc' = "data"
             ELSE /\ \E r \in LatestRequestRows(log, u) : details' = FromRequestRow(r)
                  /\ data' = data
                  /\ dpc' = "content"
    /\ UNCHANGED << main_vars, config, clock, db_ready, log, monitor_vars, probe_vars, wake,
                    requests, page_trace >>

\* get_monitoring_data, second SELECT of the iteration.
SelectLatestContent ==
    /\ dpc = "content"
    /\ LET C == LatestContentRows(log, cur_url, details.timestamp)
       IN  \E d \in (IF C = {} THEN {details} ELSE {Overlay(details, c) : c \in C}) :
              data' = [x \in DOMAIN data \cup {cur_url} |->
                          IF x = cur_url THEN d ELSE data[x]]
    /\ dpc' = "data"
    /\ details' = None
    /\ UNCHANGED << main_vars, config, clock, db_ready, log, monitor_vars, probe_vars,
                    wake, urls, cur_url, requests, page_trace >>

\* return await render_template("index.html", monitored_items=data)
Render ==
    /\ dpc = "data"
    /\ urls = {}
    /\ dpc' = "idle"
    /\ requests' = requests + 1
    /\ page_trace' = Append(page_trace, Rendered(DOMAIN data))
    /\ data' = [u \in {} |-> None]
    /\ details' = None
    /\ cur_url' = ""
    /\ UNCHANGED << main_vars, config, clock, db_ready, log, monitor_vars, probe_vars, wake,
                    urls >>

\* ------------------------------------------------------------------ Next
\* The monitoring loop, its probes and the clock.
MonitorNext ==
    \/ Startup
    \/ StartCycle
    \/ GatherReturn
    \/ GatherRaise
    \/ Sleep
    \/ Tick
    \/ \E t \in TargetIds : OnRequestStart(t)
    \/ \E t \in TargetIds : OnRequestEnd(t)
    \/ \E t \in TargetIds : OnRequestException(t)
    \/ \E t \in TargetIds : WriteCommit(t)
    \/ \E t \in TargetIds : WriteFail(t)
    \/ \E t \in TargetIds : ReadBody(t)
    \/ \E t \in TargetIds : ReadBodyFails(t)

\* One dashboard request at a time.
PageNext ==
    \/ DashRequest
    \/ DashRetry
    \/ SelectLatestRequest
    \/ SelectLatestContent
    \/ Render

Next == MonitorNext \/ PageNext

\* The monitoring loop under every configuration.  The dashboard only reads
\* the table, so leaving its requests out removes no state of the loop.
MonitorSpec == Init /\ [][MonitorNext]_vars

\* The monitoring loop together with dashboard requests.
PageInit == InitWith(PageConfigs, { << >> })

Spec == PageInit /\ [][Next]_vars

\* The monitoring loop under the scheduling of the asyncio event loop: a task
\* that can run does run, a sleep ends, a write returns or raises, and a
\* request ends in a response or in an exception (the session's total
\* timeout at the latest).  Nothing makes time pass faster than the program.
Fairness ==
    /\ WF_vars(Startup)
    /\ WF_vars(StartCycle)
    /\ WF_vars(GatherReturn)
    /\ WF_vars(GatherRaise)
    /\ WF_vars(Sleep)
    /\ WF_vars(\E t \in TargetIds : OnRequestStart(t))
    /\ WF_vars(\E t \in TargetIds : OnRequestEnd(t) \/ OnRequestException(t))
    /\ WF_vars(\E t \in TargetIds : WriteCommit(t) \/ WriteFail(t))
    /\ WF_vars(\E t \in TargetIds : ReadBody(t) \/ ReadBodyFails(t))

LiveSpec == PageInit /\ [][MonitorNext]_vars /\ Fairness

\* The application with a dashboard request under the event loop: the
\* handler goes on whenever it can, and time passes, so its sleep ends.
PageFairness ==
    /\ WF_vars(DashRetry)
    /\ WF_vars(SelectLatestRequest)
    /\ WF_vars(SelectLatestContent)
    /\ WF_vars(Render)
    /\ WF_vars(Tick)

PageLiveSpec == PageInit /\ [][Next]_vars /\ PageFairness

\* __main__ from the parsing of the configuration to the start of the
\* application, for every command line and config file.
ConfigNext ==
    \/ Main
    \/ Startup

ConfigSpec == ConfigInit /\ [][ConfigNext]_vars

\* The program started again on the log file of an earlier run (or on none):
\* init_log_db then runs on a store that is already initialized.
EarlierRun ==
    << [id |-> 1, timestamp |-> 0 - 2, url |-> "b", duration |-> 1,
        status |-> CONN_OK, details |-> << >>],
       [id |-> 2, timestamp |-> 0 - 1, url |-> "b", duration |-> NULL,
        status |-> CONTENT_OK, details |-> << >>] >>

PriorLogs == { << >>, EarlierRun }

RestartInit == InitWith(PageConfigs, PriorLogs)

RestartSpec == RestartInit /\ [][Next]_vars

\* =================================================================
\* Properties
\* =================================================================
Reqs(t) == config.targets[t].content_requirements
UrlOf(t) == config.targets[t].url

\* The committed row with a given id, as a set (empty if there is none).
RowsWithId(i) == {r \in RowsOf(log) : r.id = i}

\* The rows the probe of target t committed in this cycle, in order.
WrittenOk(t) == \A k \in 1..Len(written[t]) : Cardinality(RowsWithId(written[t][k])) = 1
WrittenRow(t, k) == CHOOSE r \in RowsWithId(written[t][k]) : TRUE
WrittenStatuses(t) == [k \in 1..Len(written[t]) |-> WrittenRow(t, k).status]

ConnStatuses == {CONN_OK, CONN_NOK}
ContentStatuses == {CONTENT_OK, CONTENT_NOK}

\* C1: every completed probe appends exactly one connectivity entry, and
\* exactly one more entry, a content entry, when that entry is CONN_OK and
\* the target has content requirements; otherwise nothing more.
C1_EntriesPerProbe ==
    \A t \in TargetIds :
        ppc[t] = "returned" =>
            /\ WrittenOk(t)
            /\ Len(written[t]) >= 1
            /\ WrittenStatuses(t)[1] \in ConnStatuses
            /\ IF WrittenStatuses(t)[1] = CONN_OK /\ Reqs(t) # << >>
               THEN /\ Len(written[t]) = 2
                    /\ WrittenStatuses(t)[2] \in ContentStatuses
               ELSE Len(written[t]) = 1

\* C2: a probe whose request failed (network error, timeout anywhere in the
\* request, status of 400 or above) appends exactly one entry, CONN_NOK with
\* a duration.
C2_FailedRequestLogsConnNok ==
    \A t \in TargetIds :
        (ppc[t] = "returned" /\ failed[t] # "none") =>
            /\ WrittenOk(t)
            /\ WrittenStatuses(t) = << CONN_NOK >>
            /\ WrittenRow(t, 1).duration # NULL

\* C3: a probe with requirements whose request succeeded appends CONN_OK and
\* then one content entry: CONTENT_OK with empty details if every required
\* substring is in the body, else CONTENT_NOK naming the first one that is not.
AllPresent(reqs, body) == \A k \in 1..Len(reqs) : IsSubstring(reqs[k], body)
IsFirstAbsent(reqs, body, k) ==
    /\ k \in 1..Len(reqs)
    /\ ~IsSubstring(reqs[k], body)
    /\ \A j \in 1..(k - 1) : IsSubstring(reqs[j], body)

C3_ContentEntry ==
    \A t \in TargetIds :
        (ppc[t] = "returned" /\ text[t] # NoText /\ Reqs(t) # << >>) =>
            /\ WrittenOk(t)
            /\ Len(written[t]) = 2
            /\ WrittenStatuses(t)[1] = CONN_OK
            /\ WrittenRow(t, 2).url = UrlOf(t)
            /\ WrittenRow(t, 2).duration = NULL
            /\ IF AllPresent(Reqs(t), text[t])
               THEN /\ WrittenStatuses(t)[2] = CONTENT_OK
                    /\ WrittenRow(t, 2).details = << >>
               ELSE /\ WrittenStatuses(t)[2] = CONTENT_NOK
                    /\ \E k \in 1..Len(Reqs(t)) :
                          /\ IsFirstAbsent(Reqs(t), text[t], k)
                          /\ SubSeq(WrittenRow(t, 2).details, 1, Len(Reqs(t)[k]))
                                = Reqs(t)[k]
                          /\ Len(WrittenRow(t, 2).details) = Len(Reqs(t)[k]) + 1

\* A probe found both of its two requirements absent and has committed its
\* two entries.
C3_Witness ==
    \E t \in TargetIds :
        /\ ppc[t] = "returned"
        /\ Len(Reqs(t)) = 2
        /\ text[t] # NoText
        /\ IsFirstAbsent(Reqs(t), text[t], 1)
        /\ ~IsSubstring(Reqs(t)[2], text[t])
        /\ Len(written[t]) = 2

\* C4: for a url with a connectivity entry, get_monitoring_data reports the
\* timestamp and duration of a connectivity entry of greatest timestamp, and
\* the status and details of a content entry of greatest timestamp among
\* those strictly later than it if there is one, else of the connectivity
\* entry itself.
ConnRows(u) == {r \in RowsOf(log) : r.url = u /\ r.duration # NULL}
LaterContentRows(u, ts) ==
    {r \in RowsOf(log) : r.url = u /\ r.duration = NULL /\ r.timestamp > ts}

C4_CompositeStatus ==
    \A u \in Urls :
        ConnRows(u) # {} =>
            \A d \in GetMonitoringData(log, u) :
                \E r \in ConnRows(u) :
                    /\ \A q \in ConnRows(u) : q.timestamp <= r.timestamp
                    /\ d.timestamp = r.timestamp
                    /\ d.duration = r.duration
                    /\ IF LaterContentRows(u, r.timestamp) = {}
                       THEN d.status = r.status /\ d.details = r.details
                       ELSE \E c \in LaterContentRows(u, r.timestamp) :
                               /\ \A q \in LaterContentRows(u, r.timestamp) :
                                     q.timestamp <= c.timestamp
                               /\ d.status = c.status
                               /\ d.details = c.details

\* A url has an older probe's entries and a newer connectivity entry that is
\* followed by a strictly later content entry, which the status reports.
C4_Witness ==
    \E u \in Urls :
        \E r1, r2 \in ConnRows(u) :
            /\ r1.timestamp < r2.timestamp
            /\ LaterContentRows(u, r2.timestamp) # {}
            /\ \E d \in GetMonitoringData(log, u) :
                  d.status \in ContentStatuses /\ d.timestamp = r2.timestamp

\* C5: get_monitoring_data has no status for a url exactly if
\* read_monitored_urls does not list the url.
C5_AbsentIffNotMonitored ==
    \A u \in Urls :
        (GetMonitoringData(log, u) = {None}) <=> (u \notin ReadMonitoredUrls(log))

\* One url has entries, all of failed requests, and the other has none yet.
C5_Witness ==
    \E u, v \in Urls :
        /\ u \in ReadMonitoredUrls(log)
        /\ \A r \in RowsOf(log) : r.url = u => r.status = CONN_NOK
        /\ None \notin GetMonitoringData(log, u)
        /\ v \notin ReadMonitoredUrls(log)
        /\ GetMonitoringData(log, v) = {None}

\* C6: connectivity entries have a duration, content entries have none.
C6_DurationDiscriminates ==
    \A r \in RowsOf(log) :
        /\ r.status \in LogStatus
        /\ r.status \in ConnStatuses => r.duration # NULL
        /\ r.status \in ContentStatuses => r.duration = NULL

\* The table holds entries of all four kinds.
C6_Witness == {r.status : r \in RowsOf(log)} = LogStatus

\* C7: a transport failure or timeout never leaves the probe: only an error
\* of the log store makes a probe raise, and only a raising probe ends the
\* monitor task; a cycle with a failed request ends like any other.
C7_TransportFailureContained ==
    /\ \A t \in TargetIds : ppc[t] = "raised" => exc[t] = OperationalError
    /\ mpc = "crashed" => \E t \in TargetIds : exc[t] = OperationalError
    /\ (mpc = "gather" /\ \A t \in TargetIds :
                              /\ exc[t] # OperationalError
                              /\ ppc[t] \in {"returned", "raised"})
          => ENABLED GatherReturn

\* One target's request failed, another target's probe has logged, and the
\* next cycle has started.
C7_Witness ==
    /\ Len(config.targets) = 2
    /\ cycle = 2
    /\ \E r \in RowsOf(log) : r.status = CONN_NOK /\ r.details = ExcStr(TimeoutError)
                              /\ r.id <= base
    /\ \E r \in RowsOf(log) : r.status = CONN_OK /\ r.id <= base

\* C8: an error of a log store write does not stop the monitoring loop.
C8_WriteFailureDoesNotStopLoop == mpc # "crashed"

\* C9: with the probes of a cycle running concurrently, the table grows in
\* the cycle by exactly the entries the probes append: none lost, none twice.
WrittenIds(t) == {written[t][k] : k \in 1..Len(written[t])}

C9_NoLostOrDuplicatedWrites ==
    /\ \A i \in 1..Len(log) : Cardinality(RowsWithId(log[i].id)) = 1
    /\ \A t \in TargetIds :
          /\ Cardinality(WrittenIds(t)) = Len(written[t])
          /\ \A i \in WrittenIds(t) : \E r \in RowsWithId(i) : r.url = UrlOf(t)
    /\ \A t1, t2 \in TargetIds : t1 # t2 => WrittenIds(t1) \cap WrittenIds(t2) = {}
    /\ cycle > 0 =>
          /\ Len(log) >= base
          /\ {log[i].id : i \in (base + 1)..Len(log)} = UNION {WrittenIds(t) : t \in TargetIds}

\* Two probes of one cycle have both committed two entries.
C9_Witness ==
    /\ Len(config.targets) = 2
    /\ \A t \in TargetIds : ppc[t] = "returned"
    /\ \E t \in TargetIds : Len(written[t]) = 2
    /\ Len(log) = base + 3

\* C10: per url, timestamps do not decrease in insertion order.
C10_TimestampsNonDecreasing ==
    \A i, j \in 1..Len(log) :
        (i < j /\ log[i].url = log[j].url) => log[i].timestamp <= log[j].timestamp

\* C11: the details of a CONTENT_NOK entry written for a missing required
\* substring s are exactly the text "<s> not found in response content".
C11_NotFoundText ==
    \A t \in TargetIds :
        (ppc[t] = "returned" /\ Len(written[t]) = 2 /\ WrittenOk(t)
            /\ WrittenRow(t, 2).status = CONTENT_NOK) =>
                \E k \in 1..Len(Reqs(t)) :
                    /\ IsFirstAbsent(Reqs(t), text[t], k)
                    /\ WrittenRow(t, 2).details
                          = Reqs(t)[k] \o << " not found in response content" >>

\* C12: the log is append-only.  A step changes the table only by the commit
\* of one write_log_db_entry, which adds that one row after the rows that are
\* there and leaves those as they are; init_log_db (also on a table that
\* already has rows) and the reads of the dashboard leave the table as it is.
C12_AppendOnly ==
    [][ /\ Len(log') >= Len(log)
        /\ SubSeq(log', 1, Len(log)) = log
        /\ log' # log =>
              \E t \in TargetIds :
                  /\ ppc[t] = "write"
                  /\ Len(log') = Len(log) + 1
                  /\ [log'[Len(log')] EXCEPT !.id = 0] = pending[t]
                  /\ written'[t] = Append(written[t], log'[Len(log')].id)
        /\ (\E t \in TargetIds : cycle' = cycle /\ written'[t] # written[t])
              => Len(log') = Len(log) + 1
        /\ db_ready' # db_ready => log' = log
        /\ dash_vars' # dash_vars => log' = log ]_vars

\* A run that started on the table of an earlier run has initialized the
\* store, appended entries of its own and served a dashboard request.
C12_Witness ==
    /\ db_ready
    /\ requests = 1
    /\ \E p \in PriorLogs :
          /\ p # << >>
          /\ Len(log) > Len(p)
          /\ SubSeq(log, 1, Len(p)) = p

\* C13: parse_config returns a Config with the command-line interval when
\* one is given, else with the interval of the config file; it fails, no
\* Config is produced and startup does not proceed when neither is there; a
\* target without "req" gets an empty content_requirements list.
C13_ParseConfigInterval ==
    [][ /\ (main_pc = "parse" /\ main_pc' # "parse" /\ config.targets # Absent) =>
              /\ args.interval # Absent =>
                    /\ main_pc' = "run"
                    /\ config'.interval = args.interval[1]
              /\ (args.interval = Absent /\ config.interval # Absent) =>
                    /\ main_pc' = "run"
                    /\ config'.interval = config.interval[1]
              /\ (args.interval = Absent /\ config.interval = Absent) =>
                    /\ main_pc' = "raised"
                    /\ config' = config
              /\ main_pc' = "run" =>
                    /\ Len(config'.targets) = Len(config.targets[1])
                    /\ \A i \in 1..Len(config.targets[1]) :
                          /\ config'.targets[i].url = config.targets[1][i].url
                          /\ config.targets[1][i].req = Absent =>
                                config'.targets[i].content_requirements = << >>
                          /\ config.targets[1][i].req # Absent =>
                                config'.targets[i].content_requirements
                                   = config.targets[1][i].req[1]
        /\ main_pc = "raised" => mpc' = "not_started" /\ ~db_ready' ]_vars

\* C14: every Config that parse_config returns has a positive interval.
C14_IntervalPositive == main_pc = "run" => config.interval > 0

\* C15: a status read sees the latest committed write: run on a table whose
\* last committed entry for a url is e (no entry for the url is committed
\* while it runs), get_monitoring_data returns the status and details of e,
\* be e a connectivity entry or a content entry.
LastCommitted(u) ==
    CHOOSE r \in RowsOf(log) :
        r.url = u /\ \A q \in RowsOf(log) : q.url = u => q.id <= r.id

C15_ReadSeesLatestWrite ==
    \A u \in ReadMonitoredUrls(log) :
        \A d \in GetMonitoringData(log, u) :
            /\ d.status = LastCommitted(u).status
            /\ d.details = LastCommitted(u).details

\* C16: within a probe the connectivity entry is committed before the content
\* entry is written.  A probe that is writing a content entry has committed
\* its CONN_OK entry, a content entry is the second entry of its probe, after
\* that probe's CONN_OK; and in the table every content entry of a url has
\* a CONN_OK entry of its own before it (up to any row, a url has at least as
\* many CONN_OK entries as content entries).
ContentCount(u, n) ==
    Cardinality({i \in 1..n : log[i].url = u /\ log[i].status \in ContentStatuses})
ConnOkCount(u, n) ==
    Cardinality({i \in 1..n : log[i].url = u /\ log[i].status = CONN_OK})

C16_ConnBeforeContent ==
    /\ \A n \in 1..Len(log) :
          log[n].status \in ContentStatuses =>
              /\ ContentCount(log[n].url, n) <= ConnOkCount(log[n].url, n)
              /\ \E i \in 1..(n - 1) :
                    /\ log[i].url = log[n].url
                    /\ log[i].status = CONN_OK
                    /\ log[i].id < log[n].id
    /\ \A t \in TargetIds :
          /\ WrittenOk(t)
          /\ (ppc[t] = "write" /\ pending[t].status \in ContentStatuses) =>
                /\ Len(written[t]) = 1
                /\ WrittenRow(t, 1).status = CONN_OK
                /\ WrittenRow(t, 1).url = pending[t].url
          /\ \A k \in 1..Len(written[t]) :
                WrittenRow(t, k).status \in ContentStatuses =>
                    /\ k = 2
                    /\ WrittenRow(t, 1).status = CONN_OK
                    /\ written[t][1] < written[t][2]

\* Two probes of the same url interleave: both have committed CONN_OK, one of
\* them has then committed its content entry, and a second cycle has added a
\* content entry of its own.
C16_Witness ==
    /\ config = SameUrlTwice
    /\ cycle = 2
    /\ ConnOkCount("a", base) = 2
    /\ ContentCount("a", base) = 1
    /\ \E t \in TargetIds :
          /\ Len(written[t]) = 2
          /\ WrittenRow(t, 2).status \in ContentStatuses

\* C17: cycles do not overlap.  A cycle starts only when no probe of the
\* cycle before is still running, the loop waits between cycles only when all
\* probes have returned, and the entries written since a cycle began are
\* entries of that cycle's probes, at most two for each target.
Running(t) == ppc[t] \in {"start", "inflight", "write", "read_body"}

C17_CyclesDoNotOverlap ==
    /\ [](mpc \in {"loop", "sleep"} => \A t \in TargetIds : ~Running(t))
    /\ [](Cardinality({t \in TargetIds : Running(t)}) <= Len(config.targets))
    /\ [](cycle > 0 =>
             /\ Len(log) - base = Cardinality(UNION {WrittenIds(t) : t \in TargetIds})
             /\ \A t \in TargetIds : Len(written[t]) <= 2)
    /\ [][cycle' # cycle =>
             /\ cycle' = cycle + 1
             /\ \A t \in TargetIds : ~Running(t)
             /\ \A t \in TargetIds : ppc'[t] = "start" /\ written'[t] = << >>
             /\ base' = Len(log)]_vars

\* The second cycle is under way with both of its probes running, after a
\* first cycle in which both targets were probed and one request failed.
C17_Witness ==
    /\ Len(config.targets) = 2
    /\ cycle = 2
    /\ base >= 2
    /\ \E r \in RowsOf(log) : r.id <= base /\ r.status = CONN_NOK
    /\ \A t \in TargetIds : Running(t)
    /\ \E t \in TargetIds : written[t] # << >>

\* C18: the monitoring loop has no stop condition: once a cycle is under way,
\* its probes complete, the loop sleeps and a new cycle probes every target
\* again (as far as the clock of the model reaches).
ClockExhausted == clock + config.interval > MaxClock

C18_LoopRunsForever ==
    \A k \in 1..(MaxCycles - 1) :
        (cycle = k /\ mpc = "gather")
            ~> \/ cycle = k + 1 /\ \A t \in TargetIds : ppc[t] # "start"
               \/ ClockExhausted

\* C19: the log store is initialized exactly once, at startup, before
\* anything uses it: as long as init_log_db has not completed no cycle has
\* started, no probe runs, no entry has been written and no dashboard request
\* reads the store; init_log_db completes in the one step that starts the
\* monitor task, and that step never happens again.
C19_InitBeforeUse ==
    /\ [](~db_ready =>
             /\ mpc = "not_started"
             /\ cycle = 0
             /\ \A t \in TargetIds : ppc[t] = "idle" /\ pending[t] = NoRow
             /\ log \in PriorLogs
             /\ dpc = "idle"
             /\ requests = 0)
    /\ [][db_ready' # db_ready =>
             (~db_ready /\ mpc = "not_started" /\ mpc' = "loop")]_vars
    /\ [][mpc # "not_started" => mpc' # "not_started"]_vars

\* The store was initialized, two cycles have written entries and a dashboard
\* request is reading them.
C19_Witness ==
    /\ db_ready
    /\ cycle = 2
    /\ Len(log) > base
    /\ dpc = "content"

\* C20: a dashboard request reads the monitored urls once; only if that read
\* is empty it waits one interval and reads them once more; it then renders
\* the data of the urls the last read returned, an empty result included.  A
\* request does at most two url reads and one wait, and it ends with a
\* rendered result (as far as the clock of the model reaches).
OpCount(op) ==
    Cardinality({i \in 1..Len(page_trace) : page_trace[i].op = op})

RequestShape ==
    page_trace # << >> =>
        /\ page_trace[1].op = "read_monitored_urls"
        /\ IF page_trace[1].urls # {}
           THEN /\ Len(page_trace) <= 2
                /\ Len(page_trace) = 2 => page_trace[2] = Rendered(page_trace[1].urls)
           ELSE /\ Len(page_trace) \in 2..4
                /\ page_trace[2] = Slept
                /\ Len(page_trace) >= 3 => page_trace[3].op = "read_monitored_urls"
                /\ Len(page_trace) = 4 => page_trace[4] = Rendered(page_trace[3].urls)

C20_DashboardReads ==
    /\ [](/\ OpCount("read_monitored_urls") <= 2
          /\ OpCount("sleep") <= 1
          /\ OpCount("render_template") <= 1)
    /\ []RequestShape
    /\ [](dpc = "wait" <=> (page_trace = << ReadUrls({}), Slept >>))
    /\ [](dpc = "idle" /\ page_trace # << >> =>
             page_trace[Len(page_trace)].op = "render_template")
    /\ (dpc # "idle") ~> (dpc = "idle" \/ wake > MaxClock)

\* A request found no urls, waited, found none again and rendered the empty
\* result.
C20_Witness ==
    /\ dpc = "idle"
    /\ page_trace = << ReadUrls({}), Slept, ReadUrls({}), Rendered({}) >>

\* C21: a composite status is consistent with a single probe also while the
\* monitoring loop writes during the read: when the second SELECT of
\* get_monitoring_data supplies status and details from a content entry, that
\* entry was appended by the same probe as the connectivity entry the first
\* SELECT took timestamp and duration from.
\* The probes of one url run one after the other and each commits its
\* connectivity entry first (C16, C17), so with one target per url the probe
\* of a row is told by the number of connectivity rows of its url up to it.
ProbeOfRow(i) ==
    Cardinality({j \in 1..i : log[j].url = log[i].url /\ log[j].duration # NULL})

C21_SingleProbeStatus ==
    [][ (dpc = "content" /\ dpc' = "data" /\ data'[cur_url].status \in ContentStatuses) =>
            \A i, j \in 1..Len(log) :
                ( /\ log[i].url = cur_url
                  /\ log[i].duration # NULL
                  /\ FromRequestRow(log[i]) = details
                  /\ log[j] \in LatestContentRows(log, cur_url, details.timestamp)
                  /\ Overlay(details, log[j]) = data'[cur_url] )
                    => ProbeOfRow(i) = ProbeOfRow(j) ]_vars

====
